---- MODULE Spec2Model ----
(***************************************************************************)
(* Model of the NDI output plug-in (src/src/NDIOutputPlugin.cpp), Apple    *)
(* (Metal) build: the sender life cycle (initializeNDI / shutdownNDI),     *)
(* the parameter-change handler, the render path with its GPU/CPU          *)
(* conversion dispatch, and the asynchronous worker thread.                *)
(*                                                                         *)
(* Threads: the host's main thread (createInstance, instanceChanged,       *)
(* destroyInstance), the host's render threads, and the worker thread      *)
(* started by initializeNDI.  A thread's position in the code is pc[t];    *)
(* one action is one stretch of code between two points where another      *)
(* thread can observe or change the shared instance data.                  *)
(*                                                                         *)
(* The conversion routines are also followed on their own, from the source *)
(* image to the cells of the buffer that is sent (SpecConv), and so is the *)
(* HDR metadata string of a frame (SpecMeta).                              *)
(***************************************************************************)
EXTENDS Integers, Sequences, FiniteSets, TLC

VARIABLES
    P,              \* the host's parameter values (what paramGetValue returns)
    data,           \* NDIInstanceData: the scalar fields
    gpuContext,     \* NDIInstanceData::gpuContext (allocated = FALSE: null)
    gpuMutex,       \* GPUContext::gpuMutex: "free" or the thread holding it
    frameQueue,     \* NDIInstanceData::frameQueue
    queueMutex,     \* NDIInstanceData::queueMutex: "free" or its holder
    asyncThread,    \* NDIInstanceData::asyncThread: "none" or "joinable"
    pc,             \* position of every thread
    loc,            \* locals of a thread inside render / sendXXXFrame
    m,              \* locals of the main thread (host action, paramName)
    outstanding,    \* encoded buffer the transport still owns ("none" if none)
    edits,          \* user edits made so far
    asyncSubmitted, \* tags 1..n of the frames that reached sendNDIFrame in
                    \* asynchronous mode, in their order of arrival
    workerSent,     \* frames the worker thread handed to the transport
    crashed,        \* the process was terminated (std::terminate, a crash)
    ndiFails,       \* can NDIlib_initialize / NDIlib_send_create fail here?
    hostDims,       \* the kinds of render window the host hands to render
    cv              \* one conversion followed from its input to the buffer
                    \* that is sent (the conversion routines on their own)

vars == << P, data, gpuContext, gpuMutex, frameQueue, queueMutex, asyncThread,
           pc, loc, m, outstanding, edits, asyncSubmitted, workerSent,
           crashed, ndiFails, hostDims, cv >>

(***************************************************************************)
(* Bounds of the model.                                                    *)
(***************************************************************************)
\* frames submitted in asynchronous mode
MaxFrames == 2
\* the largest frame whose conversion is followed cell by cell: its sides
\* and its number of pixels
MaxWidth == 3
MaxHeight == 2
MaxPixels == 6
MaxEdits == 2
\* user edits in the specification with two render threads
MaxEditsMT == 1

Main == "main"
Worker == "worker"
Renders == {"r1", "r2"}
Threads == {Main, Worker} \cup Renders
\* threads that can run sendSDRFrame / sendHDRFrame
SendThreads == Renders \cup {Worker}
\* threads that can run initializeNDI
InitThreads == Renders \cup {Main}

\* kParamSourceName, kParamHDREnabled: the edits that restart the sender
RestartParams == {"sourceName", "hdrEnabled"}
BoolParams == {"enabled", "hdrEnabled", "gpuAcceleration", "asyncSending",
               "optimalFormat"}
ParamNames == BoolParams \cup {"sourceName"}

BlankLoc == [frame |-> 0, enabledRead |-> FALSE, sawEnabled |-> FALSE,
             accAsync |-> FALSE, accepted |-> FALSE, buf |-> "none",
             conv |-> "none", gpuCall |-> "none", handle |-> "none",
             isHDR |-> FALSE, dims |-> "ok"]

\* restarted: this notification shut the sender down to restart it (1092-1098)
\* oldSession: the sender that was initialized when the user toggled HDR
\* has not been torn down yet
BlankMain == [action |-> "none", paramName |-> "none", after |-> "none",
              oldSession |-> FALSE, restarted |-> FALSE]

(***************************************************************************)
(* describe: the parameters' defaults; createInstance: the fields of a     *)
(* new NDIInstanceData, before its call of initializeNDI.                  *)
(***************************************************************************)
\* a null data->gpuContext
NullGPUContext ==
    [allocated |-> FALSE, initialized |-> FALSE, metalContext |-> "null"]

ParamDefaults ==
    [sourceName |-> 1, enabled |-> TRUE, hdrEnabled |-> FALSE,
     gpuAcceleration |-> TRUE, asyncSending |-> TRUE, optimalFormat |-> TRUE]

NewInstanceData ==
    [ndiSend |-> "null", ndiInitialized |-> FALSE, sourceName |-> 1,
     enabled |-> TRUE, gpuAcceleration |-> TRUE, asyncSending |-> TRUE,
     optimalFormat |-> TRUE, hdrEnabled |-> FALSE, stopAsyncThread |-> FALSE]

\* the render windows a host can hand to render (1174-1175 compute width and
\* height from the window's corners): both sides positive; a side of zero
\* and none negative; a negative width with a positive height; a negative
\* height
FrameDims == {"ok", "zero", "negW", "negH"}

\* no conversion is being followed on its own
IdleCv == [stage |-> "idle"]

InstanceInit(fails, dims) ==
    /\ ndiFails = fails
    /\ hostDims = dims
    /\ P = ParamDefaults
    /\ data = NewInstanceData
    /\ gpuContext = NullGPUContext
    /\ gpuMutex = "free"
    /\ frameQueue = << >>
    /\ queueMutex = "free"
    /\ asyncThread = "none"
    /\ pc = [t \in Threads |->
               IF t = Main THEN "init_a" ELSE IF t = Worker THEN "none" ELSE "idle"]
    /\ loc = [t \in SendThreads |-> BlankLoc]
    /\ m = [BlankMain EXCEPT !.action = "create", !.after = "idle"]
    /\ outstanding = "none"
    /\ edits = 0
    /\ asyncSubmitted = << >>
    /\ workerSent = << >>
    /\ crashed = FALSE

InitWith(fails, dims) ==
    /\ InstanceInit(fails, dims)
    /\ cv = IdleCv

\* the NDI runtime may be missing, or fail to create a sender
Init == InitWith(TRUE, {"ok"})

\* the NDI runtime is installed and creates its senders
InitMT == InitWith(FALSE, {"ok"})

\* the host hands render every kind of window
InitDims == InitWith(FALSE, FrameDims)

(***************************************************************************)
(* Control-flow helpers.                                                   *)
(***************************************************************************)
\* where sendSDRFrame / sendHDRFrame return to: render returns to the host,
\* the worker goes back to the head of its loop
RetPc(t) == IF t = Worker THEN "w_loop" ELSE "idle"

\* mutation of AfterInitPc: sendNDIFrame goes on to the frame although
\* initializeNDI returned false
AfterInitPc_SendsAnyway(t, ok) == IF t = Main THEN "idle" ELSE "dispatch"

\* where initializeNDI returns to: createInstance and instanceChanged end
\* after it; sendNDIFrame goes on to the frame, or skips it on failure
AfterInitPc(t, ok) ==
    IF t = Main THEN "idle" ELSE IF ok THEN "dispatch" ELSE "idle"

\* std::terminate ends the process: no thread takes another step
Terminated == [t \in Threads |-> "terminated"]

InitReturn(t, ok) ==
    /\ loc' = IF t \in Renders /\ ~ok THEN [loc EXCEPT ![t] = BlankLoc] ELSE loc
    /\ m' = IF t = Main THEN BlankMain ELSE m

(***************************************************************************)
(* initializeNDI, on the main thread (createInstance, instanceChanged) or  *)
(* on a render thread (sendNDIFrame).                                      *)
(***************************************************************************)
\* the results of a call into the NDI runtime
Outcomes(canFail) == IF canFail THEN BOOLEAN ELSE {TRUE}

\* lines 562-592: the early return, NDIlib_initialize, NDIlib_send_create
InitA(t) ==
    /\ pc[t] = "init_a"
    /\ IF data.ndiInitialized
       THEN /\ pc' = [pc EXCEPT ![t] = AfterInitPc(t, TRUE)]
            /\ InitReturn(t, TRUE)
            /\ UNCHANGED data
       ELSE \E libOk \in Outcomes(ndiFails), createOk \in Outcomes(ndiFails) :
              IF ~libOk
              THEN /\ pc' = [pc EXCEPT ![t] = AfterInitPc(t, FALSE)]
                   /\ InitReturn(t, FALSE)
                   /\ UNCHANGED data
              ELSE IF ~createOk
              THEN /\ data' = [data EXCEPT !.ndiSend = "null"]
                   /\ pc' = [pc EXCEPT ![t] = AfterInitPc(t, FALSE)]
                   /\ InitReturn(t, FALSE)
              ELSE /\ data' = [data EXCEPT !.ndiSend = "live"]
                   /\ pc' = [pc EXCEPT ![t] = "init_b"]
                   /\ UNCHANGED << loc, m >>
    /\ UNCHANGED << P, gpuContext, gpuMutex, frameQueue, queueMutex,
                    asyncThread, outstanding, edits, asyncSubmitted,
                    workerSent, crashed, ndiFails, hostDims, cv >>

\* mutation of NewGPUContext: a failed initialization keeps its handle
NewGPUContext_KeepsHandle(ok) ==
    [allocated |-> TRUE, initialized |-> ok, metalContext |-> "live"]

\* initializeGPUContext: the context it leaves behind when the backend
\* comes up (ok) and when it does not
NewGPUContext(ok) ==
    [allocated |-> TRUE, initialized |-> ok,
     metalContext |-> IF ok THEN "live" ELSE "null"]

\* lines 610-614 with initializeGPUContext (258-330)
InitB(t) ==
    /\ pc[t] = "init_b"
    /\ IF ~data.gpuAcceleration
       THEN UNCHANGED << data, gpuContext, gpuMutex >>
       ELSE \E ok \in BOOLEAN :
              /\ gpuContext' = NewGPUContext(ok)
              /\ gpuMutex' = "free"
              /\ data' = [data EXCEPT !.gpuAcceleration = ok]
    /\ pc' = [pc EXCEPT ![t] = "init_c"]
    /\ UNCHANGED << P, frameQueue, queueMutex, asyncThread, loc, m,
                    outstanding, edits, asyncSubmitted, workerSent, crashed,
                    ndiFails, hostDims, cv >>

\* lines 616-631: start of the worker thread, ndiInitialized = true.
\* Assigning to a std::thread that is still joinable calls std::terminate.
InitC(t) ==
    /\ pc[t] = "init_c"
    /\ IF data.asyncSending /\ asyncThread = "joinable"
       THEN /\ crashed' = TRUE
            /\ data' = [data EXCEPT !.stopAsyncThread = FALSE]
            /\ pc' = Terminated
            /\ UNCHANGED << loc, m, asyncThread >>
       ELSE /\ data' = [data EXCEPT
                          !.stopAsyncThread =
                              IF data.asyncSending THEN FALSE ELSE @,
                          !.ndiInitialized = TRUE]
            /\ asyncThread' = IF data.asyncSending THEN "joinable" ELSE asyncThread
            /\ pc' = [pc EXCEPT ![t] = AfterInitPc(t, TRUE),
                                ![Worker] = IF data.asyncSending THEN "w_loop" ELSE @]
            /\ InitReturn(t, TRUE)
            /\ UNCHANGED crashed
    /\ UNCHANGED << P, gpuContext, gpuMutex, frameQueue, queueMutex,
                    outstanding, edits, asyncSubmitted, workerSent, ndiFails,
                    hostDims, cv >>


(***************************************************************************)
(* shutdownNDI, on the main thread.                                        *)
(***************************************************************************)
\* where shutdownNDI returns to: line 1101 of instanceChanged after the
\* restart shutdown, the end of instanceChanged, or destroyInstance's delete
ShutdownReturn ==
    /\ pc' = [pc EXCEPT ![Main] = IF m.after = "idle" THEN "idle" ELSE m.after]
    /\ m' = IF m.after = "idle" THEN BlankMain
            ELSE [m EXCEPT !.oldSession = FALSE]

\* line 642: is the worker stopped and joined?
JoinsWorker == data.asyncSending /\ asyncThread = "joinable"

\* lines 635-643: the early return; stopAsyncThread = true (no lock held)
SdEnter ==
    /\ pc[Main] = "sd_enter"
    /\ IF ~data.ndiInitialized
       THEN /\ ShutdownReturn
            /\ UNCHANGED data
       ELSE IF JoinsWorker
       THEN /\ data' = [data EXCEPT !.stopAsyncThread = TRUE]
            /\ pc' = [pc EXCEPT ![Main] = "sd_notify"]
            /\ UNCHANGED m
       ELSE /\ pc' = [pc EXCEPT ![Main] = "sd_clear"]
            /\ UNCHANGED << data, m >>
    /\ UNCHANGED << P, gpuContext, gpuMutex, frameQueue, queueMutex,
                    asyncThread, loc, outstanding, edits, asyncSubmitted,
                    workerSent, crashed, ndiFails, hostDims, cv >>

\* line 644: queueCondition.notify_all() wakes the threads blocked in wait
SdNotify ==
    /\ pc[Main] = "sd_notify"
    /\ pc' = [pc EXCEPT ![Main] = "sd_join",
                        ![Worker] = IF @ = "w_wait" THEN "w_woken" ELSE @]
    /\ UNCHANGED << P, data, gpuContext, gpuMutex, frameQueue, queueMutex,
                    asyncThread, loc, m, outstanding, edits, asyncSubmitted,
                    workerSent, crashed, ndiFails, hostDims, cv >>

\* line 645: asyncThread.join() returns once the worker has left its function
SdJoin ==
    /\ pc[Main] = "sd_join"
    /\ pc[Worker] = "w_done"
    /\ asyncThread' = "none"
    /\ pc' = [pc EXCEPT ![Main] = "sd_clear", ![Worker] = "none"]
    /\ UNCHANGED << P, data, gpuContext, gpuMutex, frameQueue, queueMutex, loc,
                    m, outstanding, edits, asyncSubmitted, workerSent, crashed,
                    ndiFails, hostDims, cv >>

\* lines 649-655: the queue is emptied under queueMutex
SdClear ==
    /\ pc[Main] = "sd_clear"
    /\ queueMutex = "free"
    /\ frameQueue' = << >>
    /\ pc' = [pc EXCEPT ![Main] = "sd_gpu"]
    /\ UNCHANGED << P, data, gpuContext, gpuMutex, queueMutex, asyncThread,
                    loc, m, outstanding, edits, asyncSubmitted, workerSent,
                    crashed, ndiFails, hostDims, cv >>

\* mutation of ShutdownGPUContext: the handle is released, the flag stays
ShutdownGPUContext_KeepsReady(ctx) ==
    IF ~ctx.allocated \/ ~ctx.initialized
    THEN ctx
    ELSE [ctx EXCEPT !.metalContext = "null"]

\* shutdownGPUContext (332-363): what it leaves of the context
ShutdownGPUContext(ctx) ==
    IF ~ctx.allocated \/ ~ctx.initialized
    THEN ctx
    ELSE [ctx EXCEPT !.metalContext = "null", !.initialized = FALSE]

\* line 658: shutdownGPUContext; metal_gpu_shutdown releases the handle that
\* a conversion call in flight on another thread was given
SdGpu ==
    /\ pc[Main] = "sd_gpu"
    /\ gpuContext' = ShutdownGPUContext(gpuContext)
    /\ loc' = IF gpuContext.allocated /\ gpuContext.initialized
                 /\ gpuContext.metalContext = "live"
              THEN [t \in SendThreads |->
                      IF loc[t].gpuCall = "valid"
                      THEN [loc[t] EXCEPT !.gpuCall = "released"]
                      ELSE loc[t]]
              ELSE loc
    /\ pc' = [pc EXCEPT ![Main] = "sd_destroy"]
    /\ UNCHANGED << P, data, gpuMutex, frameQueue, queueMutex, asyncThread, m,
                    outstanding, edits, asyncSubmitted, workerSent, crashed,
                    ndiFails, hostDims, cv >>

\* lines 660-666: NDIlib_send_destroy, ndiSend = nullptr, ndiInitialized = false
SdDestroy ==
    /\ pc[Main] = "sd_destroy"
    /\ data' = [data EXCEPT !.ndiSend = "null", !.ndiInitialized = FALSE]
    /\ outstanding' = "none"
    /\ ShutdownReturn
    /\ UNCHANGED << P, gpuContext, gpuMutex, frameQueue, queueMutex,
                    asyncThread, loc, edits, asyncSubmitted, workerSent,
                    crashed, ndiFails, hostDims, cv >>

(***************************************************************************)
(* instanceChanged and destroyInstance, on the main thread.                *)
(***************************************************************************)
Flip(p) == IF p = "sourceName" THEN 3 - P[p] ELSE ~P[p]

\* the user edits one parameter; the host then calls instanceChanged with
\* kOfxChangeUserEdited and the parameter's name
UserEdit(p) ==
    /\ pc[Main] = "idle"
    /\ m.action = "none"
    /\ edits < MaxEdits
    /\ edits' = edits + 1
    /\ P' = [P EXCEPT ![p] = Flip(p)]
    /\ m' = [action |-> "changed", paramName |-> p, after |-> "ic_after",
             oldSession |-> p = "hdrEnabled" /\ data.ndiInitialized,
             restarted |-> FALSE]
    /\ pc' = [pc EXCEPT ![Main] = "ic_entry"]
    /\ loc' = IF p = "enabled" /\ ~P.enabled
              THEN [t \in SendThreads |->
                      IF pc[t] = "idle" THEN loc[t]
                      ELSE [loc[t] EXCEPT !.sawEnabled = TRUE]]
              ELSE loc
    /\ UNCHANGED << data, gpuContext, gpuMutex, frameQueue, queueMutex,
                    asyncThread, outstanding, asyncSubmitted, workerSent,
                    crashed, ndiFails, hostDims, cv >>

\* line 1092-1095: does this edit restart the sender?
Restarts(paramName) == paramName \in RestartParams /\ data.ndiInitialized

\* lines 1039-1098: every field is refreshed from its parameter, then the
\* restart test
IcUpdate ==
    /\ pc[Main] = "ic_entry"
    /\ data' = [data EXCEPT !.sourceName = P.sourceName,
                            !.enabled = P.enabled,
                            !.gpuAcceleration = P.gpuAcceleration,
                            !.asyncSending = P.asyncSending,
                            !.optimalFormat = P.optimalFormat,
                            !.hdrEnabled = P.hdrEnabled]
    /\ pc' = [pc EXCEPT ![Main] =
                 IF Restarts(m.paramName) THEN "sd_enter" ELSE "ic_after"]
    /\ m' = [m EXCEPT !.oldSession = @ /\ Restarts(m.paramName),
                      !.restarted = Restarts(m.paramName)]
    /\ UNCHANGED << P, gpuContext, gpuMutex, frameQueue, queueMutex,
                    asyncThread, loc, outstanding, edits, asyncSubmitted,
                    workerSent, crashed, ndiFails, hostDims, cv >>

\* lines 1100-1105
IcAfter ==
    /\ pc[Main] = "ic_after"
    /\ IF data.enabled /\ ~data.ndiInitialized
       THEN /\ pc' = [pc EXCEPT ![Main] = "init_a"]
            /\ m' = [m EXCEPT !.after = "idle"]
       ELSE IF ~data.enabled /\ data.ndiInitialized
       THEN /\ pc' = [pc EXCEPT ![Main] = "sd_enter"]
            /\ m' = [m EXCEPT !.after = "idle"]
       ELSE /\ pc' = [pc EXCEPT ![Main] = "idle"]
            /\ m' = BlankMain
    /\ UNCHANGED << P, data, gpuContext, gpuMutex, frameQueue, queueMutex,
                    asyncThread, loc, outstanding, edits, asyncSubmitted,
                    workerSent, crashed, ndiFails, hostDims, cv >>

\* destroyInstance (1012-1022): shutdownNDI, then delete myData.  The host
\* destroys an instance when none of its renders is running.
DestroyInstance ==
    /\ pc[Main] = "idle"
    /\ m.action = "none"
    /\ \A t \in Renders : pc[t] = "idle"
    /\ m' = [BlankMain EXCEPT !.action = "destroy", !.after = "delete"]
    /\ pc' = [pc EXCEPT ![Main] = "sd_enter"]
    /\ UNCHANGED << P, data, gpuContext, gpuMutex, frameQueue, queueMutex,
                    asyncThread, loc, outstanding, edits, asyncSubmitted,
                    workerSent, crashed, ndiFails, hostDims, cv >>

\* line 1019: delete myData; destroying a joinable std::thread calls
\* std::terminate
DeleteInstance ==
    /\ pc[Main] = "delete"
    /\ pc' = IF asyncThread = "joinable" THEN Terminated
             ELSE [pc EXCEPT ![Main] = "destroyed"]
    /\ crashed' = (asyncThread = "joinable")
    /\ UNCHANGED << P, data, gpuContext, gpuMutex, frameQueue, queueMutex,
                    asyncThread, loc, m, outstanding, edits, asyncSubmitted,
                    workerSent, ndiFails, hostDims, cv >>

(***************************************************************************)
(* asyncFrameProcessor, the worker thread (501-530).                       *)
(***************************************************************************)
\* line 505: while (!data->stopAsyncThread)
WLoop ==
    /\ pc[Worker] = "w_loop"
    /\ pc' = [pc EXCEPT ![Worker] =
                 IF data.stopAsyncThread THEN "w_done" ELSE "w_lock"]
    /\ UNCHANGED << P, data, gpuContext, gpuMutex, frameQueue, queueMutex,
                    asyncThread, loc, m, outstanding, edits, asyncSubmitted,
                    workerSent, crashed, ndiFails, hostDims, cv >>

\* lines 507-509: the predicate of the wait
WaitPredicate == frameQueue # << >> \/ data.stopAsyncThread

\* lines 506-509: the lock is taken (again, when a wait is woken) and
\* wait(lock, pred) evaluates pred with the lock held ...
WPred ==
    /\ pc[Worker] \in {"w_lock", "w_woken"}
    /\ queueMutex = "free"
    /\ queueMutex' = Worker
    /\ pc' = [pc EXCEPT ![Worker] = IF WaitPredicate THEN "w_check" ELSE "w_block"]
    /\ UNCHANGED << P, data, gpuContext, gpuMutex, frameQueue, asyncThread,
                    loc, m, outstanding, edits, asyncSubmitted, workerSent,
                    crashed, ndiFails, hostDims, cv >>

\* ... and, pred being false, releases the lock and blocks in one step
WBlock ==
    /\ pc[Worker] = "w_block"
    /\ queueMutex' = "free"
    /\ pc' = [pc EXCEPT ![Worker] = "w_wait"]
    /\ UNCHANGED << P, data, gpuContext, gpuMutex, frameQueue, asyncThread,
                    loc, m, outstanding, edits, asyncSubmitted, workerSent,
                    crashed, ndiFails, hostDims, cv >>

\* lines 511-518: break on stop, else pop the front entry and unlock
WCheck ==
    /\ pc[Worker] = "w_check"
    /\ queueMutex' = "free"
    /\ IF data.stopAsyncThread
       THEN /\ pc' = [pc EXCEPT ![Worker] = "w_done"]
            /\ UNCHANGED << frameQueue, loc >>
       ELSE IF frameQueue # << >>
       THEN /\ frameQueue' = Tail(frameQueue)
            /\ loc' = [loc EXCEPT ![Worker] =
                         [BlankLoc EXCEPT !.frame = Head(frameQueue).frame,
                                          !.isHDR = Head(frameQueue).isHDR]]
            /\ pc' = [pc EXCEPT ![Worker] = "dispatch"]
       ELSE /\ pc' = [pc EXCEPT ![Worker] = "w_loop"]
            /\ UNCHANGED << frameQueue, loc >>
    /\ UNCHANGED << P, data, gpuContext, gpuMutex, asyncThread, m, outstanding,
                    edits, asyncSubmitted, workerSent, crashed, ndiFails,
                    hostDims, cv >>


(***************************************************************************)
(* render and sendNDIFrame, on a render thread.                            *)
(***************************************************************************)
\* lines 1118-1128: hdrEnabled and gpuAcceleration are refreshed from their
\* parameters, and the enabled parameter is read
RenderEnter(t) ==
    /\ pc[t] = "idle"
    /\ m.action \notin {"create", "destroy"}
    /\ Len(asyncSubmitted) < MaxFrames
    /\ data' = [data EXCEPT !.hdrEnabled = P.hdrEnabled,
                            !.gpuAcceleration = P.gpuAcceleration]
    /\ \E d \in hostDims :
         loc' = [loc EXCEPT ![t] = [BlankLoc EXCEPT !.enabledRead = P.enabled,
                                                   !.sawEnabled = P.enabled,
                                                   !.dims = d]]
    /\ pc' = [pc EXCEPT ![t] = "r_write"]
    /\ UNCHANGED << P, gpuContext, gpuMutex, frameQueue, queueMutex,
                    asyncThread, m, outstanding, edits, asyncSubmitted,
                    workerSent, crashed, ndiFails, hostDims, cv >>

\* mutation of NeedsInit: every frame of an enabled sender starts an
\* initialization
NeedsInit_EveryFrame(d) == d.enabled

\* line 923: does sendNDIFrame initialize the sender first?
NeedsInit(d) == ~d.ndiInitialized /\ d.enabled

\* line 1179: memcpy(dstData, srcData, height * dstRowBytes).  With a
\* negative height the byte count converts to a size_t near 2^64 and the
\* copy runs off both images: the process crashes.
CopyOverruns(t) == loc[t].dims = "negH"

\* line 1129 (data->enabled is written), the copy of the source image to
\* the output image (1177-1179), then sendNDIFrame up to line 929
RenderWrite(t) ==
    /\ pc[t] = "r_write"
    /\ data' = [data EXCEPT !.enabled = loc[t].enabledRead]
    /\ IF CopyOverruns(t)
       THEN /\ pc' = Terminated
            /\ crashed' = TRUE
            /\ UNCHANGED << loc, asyncSubmitted >>
       ELSE /\ LET async == data.asyncSending /\ loc[t].enabledRead
                   tag == Len(asyncSubmitted) + 1
               IN /\ loc' = [loc EXCEPT ![t].accAsync = async,
                                        ![t].frame = IF async THEN tag ELSE 0]
                  /\ asyncSubmitted' = IF async THEN Append(asyncSubmitted, tag)
                                       ELSE asyncSubmitted
            /\ pc' = [pc EXCEPT ![t] =
                         IF NeedsInit(data') THEN "init_a" ELSE "dispatch"]
            /\ UNCHANGED crashed
    /\ UNCHANGED << P, gpuContext, gpuMutex, frameQueue, queueMutex,
                    asyncThread, m, outstanding, edits, workerSent, ndiFails,
                    hostDims, cv >>

(***************************************************************************)
(* sendSDRFrame, sendHDRFrame and the conversions, on a render thread or   *)
(* on the worker thread.                                                   *)
(***************************************************************************)
\* mutation of SendGuard: the guard without its test of data->enabled
SendGuard_NoEnabled == data.ndiInitialized

\* lines 707 and 852: the guard of sendHDRFrame and of sendSDRFrame
SendGuard == data.enabled /\ data.ndiInitialized

\* line 367: convertRGBAToUYVY_GPU goes to the CPU without a usable context
UyvyContextUsable == gpuContext.allocated /\ gpuContext.initialized

\* mutation of HdrUsesGpu: the Metal HDR conversion is called whenever the
\* gpuAcceleration flag is set
HdrUsesGpu_FlagOnly == data.gpuAcceleration

\* line 726: the condition of the Metal HDR conversion
HdrUsesGpu ==
    /\ data.gpuAcceleration
    /\ gpuContext.allocated
    /\ gpuContext.initialized
    /\ gpuContext.metalContext = "live"

\* lines 393-404: the CPU routine runs unless the Metal call succeeded
UyvyFallsBack(success) == ~success

\* mutation of HdrFallsBack: the CPU conversion is never run after the
\* Metal HDR call
HdrFallsBack_Never(gpuSuccess) == FALSE

\* line 769: if (!gpuSuccess)
HdrFallsBack(gpuSuccess) == ~gpuSuccess

\* lines 715-717, 375-377, 455-457, 884-886: the first thing every path does
\* behind the guard is to size its buffer.  A negative width with a
\* positive height makes the int product negative and the size_t a number
\* near 2^64: resize throws std::length_error, which unwinds render (and
\* the lock of line 373) up to the catch of pluginMain (1448-1456).
ResizeThrows(t) == t \in Renders /\ loc[t].dims = "negW"

\* lines 931-935 (for the worker, lines 521-525), the guard, and the choice
\* of the conversion (871-877, 367, 726)
Dispatch(t) ==
    /\ pc[t] = "dispatch"
    /\ LET hdr == IF t = Worker THEN loc[t].isHDR ELSE data.hdrEnabled
       IN IF ~SendGuard \/ ResizeThrows(t)
          THEN /\ pc' = [pc EXCEPT ![t] = RetPc(t)]
               /\ loc' = [loc EXCEPT ![t] = BlankLoc]
          ELSE IF hdr
          THEN /\ pc' = [pc EXCEPT ![t] = IF HdrUsesGpu THEN "hdr_gpu" ELSE "hdr_cpu"]
               /\ loc' = [loc EXCEPT ![t].accepted = TRUE, ![t].buf = "hdr",
                                     ![t].gpuCall =
                                         IF HdrUsesGpu THEN "valid" ELSE "none"]
          ELSE IF data.optimalFormat
          THEN /\ pc' = [pc EXCEPT ![t] =
                            IF data.gpuAcceleration /\ UyvyContextUsable
                            THEN "g_lock" ELSE "uyvy_cpu"]
               /\ loc' = [loc EXCEPT ![t].accepted = TRUE, ![t].buf = "uyvy"]
          ELSE /\ pc' = [pc EXCEPT ![t] = "rgba_cpu"]
               /\ loc' = [loc EXCEPT ![t].accepted = TRUE, ![t].buf = "rgba"]
    /\ UNCHANGED << P, data, gpuContext, gpuMutex, frameQueue, queueMutex,
                    asyncThread, m, outstanding, edits, asyncSubmitted,
                    workerSent, crashed, ndiFails, hostDims, cv >>

\* lines 373-382: the lock, the resize, then the Metal call if there is a
\* Metal context, else the CPU routine (with the lock held)
GLock(t) ==
    /\ pc[t] = "g_lock"
    /\ gpuMutex = "free"
    /\ gpuMutex' = t
    /\ IF gpuContext.metalContext = "live"
       THEN /\ pc' = [pc EXCEPT ![t] = "g_call"]
            /\ loc' = [loc EXCEPT ![t].gpuCall = "valid"]
       ELSE /\ pc' = [pc EXCEPT ![t] = "g_cpu"]
            /\ UNCHANGED loc
    /\ UNCHANGED << P, data, gpuContext, frameQueue, queueMutex, asyncThread,
                    m, outstanding, edits, asyncSubmitted, workerSent, crashed,
                    ndiFails, hostDims, cv >>

\* lines 912-917: the send primitive is chosen by data->asyncSending.  An
\* asynchronous send returns at once and leaves the buffer with the
\* transport, which owns it until the next send call on the sender or the
\* sender's destruction; a synchronous send has finished with the buffer
\* when it returns.
StartSdrSend(t, l) ==
    /\ pc' = [pc EXCEPT ![t] = IF data.asyncSending THEN "tx_async" ELSE "tx_sync"]
    /\ loc' = [loc EXCEPT ![t] = [l EXCEPT !.handle = data.ndiSend]]
    /\ outstanding' = IF data.asyncSending THEN l.buf ELSE "none"

\* lines 829-847: the HDR frame is sent with the synchronous primitive
StartHdrSend(t, l) ==
    /\ pc' = [pc EXCEPT ![t] = "tx_hdr"]
    /\ loc' = [loc EXCEPT ![t] = [l EXCEPT !.handle = data.ndiSend]]
    /\ outstanding' = "none"

Unlocked(t) == IF gpuMutex = t THEN "free" ELSE gpuMutex

\* what a backend conversion call can do: return true, return false, and,
\* when its context was released under it (a use after free), also crash
CallOutcomes(t) ==
    {"true", "false"} \cup (IF loc[t].gpuCall = "released" THEN {"crash"} ELSE {})

\* mutation of ContextAfterCall: a failed call marks the context unusable
ContextAfterCall_Disables(ctx, success) ==
    IF success THEN ctx ELSE [ctx EXCEPT !.initialized = FALSE]

\* lines 393-401 and 740-744: whether the backend call returned true or
\* false, the code only logs; it writes no field of the context
ContextAfterCall(ctx, success) == ctx

\* the locals after the backend call returned: on failure the destination
\* holds whatever the backend left there
AfterCall(l, o) ==
    [l EXCEPT !.conv = IF o = "true" THEN "gpu" ELSE "garbage",
              !.gpuCall = IF o = "true" THEN "none" ELSE "failed"]

\* lines 385-404: metal_gpu_convert_rgba_to_uyvy returns; on success the
\* function returns (unlocking), else it goes on to the CPU routine
GCall(t) ==
    /\ pc[t] = "g_call"
    /\ \E o \in CallOutcomes(t) :
         /\ gpuContext' = ContextAfterCall(gpuContext, o = "true")
         /\ IF o = "crash"
            THEN /\ pc' = Terminated
                 /\ crashed' = TRUE
                 /\ UNCHANGED << loc, gpuMutex, outstanding >>
            ELSE IF UyvyFallsBack(o = "true")
            THEN /\ pc' = [pc EXCEPT ![t] = "g_cpu"]
                 /\ loc' = [loc EXCEPT ![t] = AfterCall(loc[t], o)]
                 /\ UNCHANGED << gpuMutex, outstanding, crashed >>
            ELSE /\ StartSdrSend(t, AfterCall(loc[t], o))
                 /\ gpuMutex' = Unlocked(t)
                 /\ UNCHANGED crashed
    /\ UNCHANGED << P, data, frameQueue, queueMutex, asyncThread,
                    m, edits, asyncSubmitted, workerSent, ndiFails, hostDims,
                    cv >>

\* line 404: convertRGBAToUYVY_CPU inside convertRGBAToUYVY_GPU
GCpu(t) ==
    /\ pc[t] = "g_cpu"
    /\ StartSdrSend(t, [loc[t] EXCEPT !.conv = "cpu"])
    /\ gpuMutex' = Unlocked(t)
    /\ UNCHANGED << P, data, gpuContext, frameQueue, queueMutex, asyncThread,
                    m, edits, asyncSubmitted, workerSent, crashed, ndiFails,
                    hostDims, cv >>

\* convertRGBAToUYVY_CPU (449-499) called without the GPU lock, and the
\* RGBA8 loop of sendSDRFrame (883-910)
SdrCpu(t) ==
    /\ pc[t] \in {"uyvy_cpu", "rgba_cpu"}
    /\ StartSdrSend(t, [loc[t] EXCEPT !.conv = "cpu"])
    /\ UNCHANGED << P, data, gpuContext, gpuMutex, frameQueue, queueMutex,
                    asyncThread, m, edits, asyncSubmitted, workerSent, crashed,
                    ndiFails, hostDims, cv >>

\* lines 731-745: metal_gpu_convert_rgba_to_hdr returns (no lock is held)
HdrGpu(t) ==
    /\ pc[t] = "hdr_gpu"
    /\ \E o \in CallOutcomes(t) :
         /\ gpuContext' = ContextAfterCall(gpuContext, o = "true")
         /\ IF o = "crash"
            THEN /\ pc' = Terminated
                 /\ crashed' = TRUE
                 /\ UNCHANGED << loc, outstanding >>
            ELSE IF HdrFallsBack(o = "true")
            THEN /\ pc' = [pc EXCEPT ![t] = "hdr_cpu"]
                 /\ loc' = [loc EXCEPT ![t] = AfterCall(loc[t], o)]
                 /\ UNCHANGED << outstanding, crashed >>
            ELSE /\ StartHdrSend(t, AfterCall(loc[t], o))
                 /\ UNCHANGED crashed
    /\ UNCHANGED << P, data, gpuMutex, frameQueue, queueMutex,
                    asyncThread, m, edits, asyncSubmitted, workerSent,
                    ndiFails, hostDims, cv >>

\* lines 768-827: the CPU Planar16 conversion
HdrCpu(t) ==
    /\ pc[t] = "hdr_cpu"
    /\ StartHdrSend(t, [loc[t] EXCEPT !.conv = "cpu"])
    /\ UNCHANGED << P, data, gpuContext, gpuMutex, frameQueue, queueMutex,
                    asyncThread, m, edits, asyncSubmitted, workerSent, crashed,
                    ndiFails, hostDims, cv >>

\* a thread is inside a transport send call: NDIlib_send_send_video_async_v2
\* (914), NDIlib_send_send_video_v2 (916), NDIlib_send_send_video_v2 (847)
TxPcs == {"tx_async", "tx_sync", "tx_hdr"}

\* a thread is inside a backend (Metal) conversion call (385, 731)
GpuCallPcs == {"g_call", "hdr_gpu"}

\* a thread is inside a conversion that writes an encoded buffer
ConvPcs == GpuCallPcs \cup {"g_cpu", "uyvy_cpu", "rgba_cpu", "hdr_cpu"}

\* a thread is between the guard of sendXXXFrame and its send call
PipelinePcs == ConvPcs \cup {"g_lock"}

\* the status of a render call that ends in the step taken from the current
\* state: kOfxStatOK (line 1190) unless an exception unwinds render to the
\* catch clauses of pluginMain (1448-1456)
ReturnStatus(t) ==
    IF pc[t] = "dispatch" /\ ResizeThrows(t) THEN "kOfxStatErrUnknown"
    ELSE "kOfxStatOK"

\* the transport's send call returns, and with it sendXXXFrame
TxReturn(t) ==
    /\ pc[t] \in TxPcs
    /\ pc' = [pc EXCEPT ![t] = RetPc(t)]
    /\ loc' = [loc EXCEPT ![t] = BlankLoc]
    /\ workerSent' = IF t = Worker THEN Append(workerSent, loc[t].frame)
                     ELSE workerSent
    /\ UNCHANGED << P, data, gpuContext, gpuMutex, frameQueue, queueMutex,
                    asyncThread, m, outstanding, edits, asyncSubmitted,
                    crashed, ndiFails, hostDims, cv >>

(***************************************************************************)
(* The conversions on their own: one call of sendSDRFrame (UYVY, RGBA8) or *)
(* sendHDRFrame (Planar16) followed from its input image to the buffer and *)
(* the frame record it sends, cell by cell.  A cell of a buffer is [by, v]: who wrote it last  *)
(* ("zero": the fill of resize, "stale": an earlier frame, "junk": a       *)
(* backend call that failed, "gpu": one that succeeded, "cpu": the CPU     *)
(* routine) and, for "cpu", the value written.  Channel values are the     *)
(* floats -1.0, 0.0, 1.0, 2.0; the float products and sums of the code are *)
(* computed exactly, in units of 1/10000 (chroma: 1/20000).                *)
(***************************************************************************)
\* the pixels of the source images: white, and a pixel out of range on two
\* channels (clamped, it is red)
Pixels == { << 1, 1, 1, 1 >>, << 2, -1, 0, 0 >> }

Formats == {"uyvy", "p216", "rgba"}

Cell(by, v) == [by |-> by, v |-> v]

\* mutation of Clamp: the channel is used as it is
Clamp_None(c) == c

\* lines 472-474, 784-786, 900-903: std::max(0.0f, std::min(1.0f, c))
Clamp(c) == IF c < 0 THEN 0 ELSE IF c > 1 THEN 1 ELSE c

\* lines 375, 455, 715-716, 884: the cells of the encoded buffer (bytes for
\* UYVY and RGBA8, 16-bit samples for Planar16)
BufferSize(fmt, width, height) ==
    IF fmt = "rgba" THEN width * height * 4 ELSE width * height * 2

\* mutation of Resized: the buffer keeps the length it had
Resized_Keep(buf, n) == buf

\* vector::resize keeps the cells it has and fills the new ones with zero
Resized(buf, n) ==
    [i \in 1..n |-> IF i <= Len(buf) THEN buf[i] ELSE Cell("zero", 0)]

\* the pixel of row srcRow, column x of the source image (467-468, 780-781)
SrcPixel(src, width, srcRow, x) == src[srcRow * width + x + 1]

\* mutation of SecondIndex: a pixel without a right neighbour is paired with
\* the first pixel of its row
SecondIndex_RowStart(width, srcRow, x) ==
    IF x + 1 < width THEN srcRow * width + x + 1 ELSE srcRow * width

\* lines 476-478, 788-790: the pixel (counted from 0 over the image) whose
\* channels become r2, g2, b2: (x + 1 < width) ? srcData[srcIdx2 + c] : c1.
\* srcIdx2 is computed for every iteration but read only in the first arm.
SecondIndex(width, srcRow, x) ==
    IF x + 1 < width THEN srcRow * width + x + 1 ELSE srcRow * width + x

SecondPixel(src, width, srcRow, x) == src[SecondIndex(width, srcRow, x) + 1]

\* lines 481 and 793: luma of a clamped pixel, Rec.709 and Rec.2020
Luma709(p) == 2126 * Clamp(p[1]) + 7152 * Clamp(p[2]) + 722 * Clamp(p[3])
Luma2020(p) == 2627 * Clamp(p[1]) + 6780 * Clamp(p[2]) + 593 * Clamp(p[3])

\* lines 483-484 and 797-802: chroma of the average of two clamped pixels
ChromaU709(p, q) ==
    0 - 1146 * (Clamp(p[1]) + Clamp(q[1])) - 3854 * (Clamp(p[2]) + Clamp(q[2]))
      + 5000 * (Clamp(p[3]) + Clamp(q[3]))
ChromaV709(p, q) ==
    5000 * (Clamp(p[1]) + Clamp(q[1])) - 4542 * (Clamp(p[2]) + Clamp(q[2]))
      - 458 * (Clamp(p[3]) + Clamp(q[3]))
ChromaU2020(p, q) ==
    0 - 1396 * (Clamp(p[1]) + Clamp(q[1])) - 3604 * (Clamp(p[2]) + Clamp(q[2]))
      + 5000 * (Clamp(p[3]) + Clamp(q[3]))
ChromaV2020(p, q) ==
    5000 * (Clamp(p[1]) + Clamp(q[1])) - 4598 * (Clamp(p[2]) + Clamp(q[2]))
      - 402 * (Clamp(p[3]) + Clamp(q[3]))

\* mutation of ChromaByteWide: the chroma is scaled without the offset 0.5
ChromaByteWide_NoOffset(chromaE4x2) == (chromaE4x2 * 255) \div 20000

\* lines 487-490, 900-903: the scaled value, y * 255.0f and (u + 0.5f) *
\* 255.0f, cut to an integer, before it is narrowed
ByteWide(lumaE4) == (lumaE4 * 255) \div 10000
ChromaByteWide(chromaE4x2) == ((chromaE4x2 + 10000) * 255) \div 20000

\* lines 487-490, 900-903: static_cast<uint8_t> of the scaled value
Byte(lumaE4) == ByteWide(lumaE4) % 256
ChromaByte(chromaE4x2) == ChromaByteWide(chromaE4x2) % 256

\* lines 807-810: the limited-range value, 4096 + y * 56064 and
\* 32768 + u * 28672, cut to an integer, before it is narrowed
Luma16Wide(lumaE4) == 4096 + (lumaE4 * 56064) \div 10000
Chroma16Wide(chromaE4x2) == (32768 * 20000 + chromaE4x2 * 28672) \div 20000

\* lines 807-810: static_cast<uint16_t> of the limited-range value
Luma16(lumaE4) == Luma16Wide(lumaE4) % 65536
Chroma16(chromaE4x2) == Chroma16Wide(chromaE4x2) % 65536

\* mutation of UyvyPairWrites: the chroma bytes are not written
UyvyPairWrites_LumaOnly(src, width, height, y, x) ==
    LET p == SrcPixel(src, width, height - 1 - y, x)
        q == SecondPixel(src, width, height - 1 - y, x)
        dstIdx == (y * width + x) * 2
    IN << << dstIdx + 1, Byte(Luma709(p)) >>,
          << dstIdx + 3, Byte(Luma709(q)) >> >>

\* lines 465-490: the four stores of one iteration of the UYVY loop, as
\* << index into dstData, value >>
UyvyPairWrites(src, width, height, y, x) ==
    LET p == SrcPixel(src, width, height - 1 - y, x)
        q == SecondPixel(src, width, height - 1 - y, x)
        dstIdx == (y * width + x) * 2
    IN << << dstIdx + 0, ChromaByte(ChromaU709(p, q)) >>,
          << dstIdx + 1, Byte(Luma709(p)) >>,
          << dstIdx + 2, ChromaByte(ChromaV709(p, q)) >>,
          << dstIdx + 3, Byte(Luma709(q)) >> >>

\* lines 777-824: the stores of one iteration of the Planar16 loop, as
\* << index into dstData, value >>; the UV plane starts at width * height
P216PairWrites(src, width, height, y, x) ==
    LET p == SrcPixel(src, width, height - 1 - y, x)
        q == SecondPixel(src, width, height - 1 - y, x)
        yIdx1 == y * width + x
        uvIdx == (y * width + x) \div 2
        uvPlane == width * height
    IN << << yIdx1, Luma16(Luma2020(p)) >> >>
       \o (IF x + 1 < width
           THEN << << yIdx1 + 1, Luma16(Luma2020(q)) >> >>
           ELSE << >>)
       \o << << uvPlane + uvIdx * 2, Chroma16(ChromaU2020(p, q)) >>,
             << uvPlane + uvIdx * 2 + 1, Chroma16(ChromaV2020(p, q)) >> >>

\* lines 897-903: the four stores of one iteration of the RGBA8 loop: each
\* channel of the pixel, alpha included, clamped and scaled by 255
RgbaPixelWrites(src, width, height, y, x) ==
    LET p == SrcPixel(src, width, height - 1 - y, x)
        dstIdx == (y * width + x) * 4
    IN [c \in 1..4 |-> << dstIdx + c - 1, Byte(10000 * Clamp(p[c])) >>]

\* the iterations of a row: for (x = 0; x < width; x += 2)
PairsPerRow(width) == (width + 1) \div 2

\* lines 466, 778: x += 2; line 896: ++x
ColumnStep(fmt) == IF fmt = "rgba" THEN 1 ELSE 2

IterationsPerRow(fmt, width) ==
    IF fmt = "rgba" THEN width ELSE PairsPerRow(width)

\* the stores of the CPU routine from iteration k on, in program order
\* (for y, for x): lines 464-492, 776-826 and 894-905
RECURSIVE WritesFrom(_, _, _, _, _)
WritesFrom(fmt, src, width, height, k) ==
    IF k >= height * IterationsPerRow(fmt, width)
    THEN << >>
    ELSE LET y == k \div IterationsPerRow(fmt, width)
             x == ColumnStep(fmt) * (k % IterationsPerRow(fmt, width))
         IN (CASE fmt = "uyvy" -> UyvyPairWrites(src, width, height, y, x)
               [] fmt = "p216" -> P216PairWrites(src, width, height, y, x)
               [] fmt = "rgba" -> RgbaPixelWrites(src, width, height, y, x))
            \o WritesFrom(fmt, src, width, height, k + 1)

CpuWrites(fmt, src, width, height) == WritesFrom(fmt, src, width, height, 0)

\* the buffer after the stores ws that fall inside it
ApplyWrites(buf, ws) ==
    [i \in 1..Len(buf) |->
        LET hits == {j \in 1..Len(ws) : ws[j][1] = i - 1}
        IN IF hits = {} THEN buf[i]
           ELSE Cell("cpu", ws[CHOOSE j \in hits : \A h \in hits : h <= j][2])]

\* a store of ws falls outside the buffer: the heap is written past the end
\* of the vector's storage
Overruns(buf, ws) == \E j \in 1..Len(ws) : ws[j][1] \notin 0..(Len(buf) - 1)

\* the buffer the CPU routine produces when it is called directly, on a
\* buffer it has just sized
DirectCpu(fmt, src, width, height) ==
    ApplyWrites(Resized(<< >>, BufferSize(fmt, width, height)),
                CpuWrites(fmt, src, width, height))

\* the sizes of the images that are followed, as << width, height >>
ImageSizes ==
    {wh \in (1..MaxWidth) \X (1..MaxHeight) : wh[1] * wh[2] <= MaxPixels}

\* lines 931-935 and 871: the format the frame is sent in
FormatFor(hdrEnabled, optimalFormat) ==
    IF hdrEnabled THEN "p216" ELSE IF optimalFormat THEN "uyvy" ELSE "rgba"

\* lines 833-844 and 861-881, 907-909: the frame record handed to the
\* transport; cells is the length of the vector p_data points into and
\* cellBytes the size of one of its elements
NoRecord ==
    [FourCC |-> "none", xres |-> 0, yres |-> 0, line_stride_in_bytes |-> 0,
     cells |-> 0, cellBytes |-> 0]

FrameRecord(fmt, width, height, buf) ==
    [FourCC |-> CASE fmt = "p216" -> "P216"
                  [] fmt = "uyvy" -> "UYVY"
                  [] fmt = "rgba" -> "RGBA",
     xres |-> width,
     yres |-> height,
     line_stride_in_bytes |-> IF fmt = "rgba" THEN width * 4 ELSE width * 2,
     cells |-> Len(buf),
     cellBytes |-> IF fmt = "p216" THEN 2 ELSE 1]

\* the calls that are followed: the configuration that selects the format,
\* an image, whether the call goes through the backend (a Ready context
\* with GPU acceleration on; the RGBA8 branch of sendSDRFrame has no backend
\* call), and the buffer before the call: empty (the first frame), left by
\* an earlier frame of the same size, or left longer by an earlier frame of
\* other dimensions
ConvCalls ==
    UNION { [stage : {"resize"}, hdrEnabled : {hdr}, optimalFormat : {opt},
             fmt : {FormatFor(hdr, opt)},
             width : {wh[1]}, height : {wh[2]},
             src : [1..(wh[1] * wh[2]) -> Pixels],
             viaGpu : IF FormatFor(hdr, opt) = "rgba" THEN {FALSE}
                      ELSE BOOLEAN,
             buf : { [i \in 1..n |-> Cell("stale", 0)] :
                     n \in {0, BufferSize(FormatFor(hdr, opt), wh[1], wh[2]),
                            BufferSize(FormatFor(hdr, opt), wh[1], wh[2]) + 1} },
             gpu : {"none"}, overrun : {FALSE}, rec : {NoRecord}] :
            hdr \in BOOLEAN, opt \in BOOLEAN, wh \in ImageSizes }

InitConv ==
    /\ InstanceInit(FALSE, {"ok"})
    /\ cv \in ConvCalls

\* everything but cv
instanceVars ==
    << P, data, gpuContext, gpuMutex, frameQueue, queueMutex, asyncThread, pc,
       loc, m, outstanding, edits, asyncSubmitted, workerSent, crashed,
       ndiFails, hostDims >>

\* lines 715-718 (Planar16), 375-378 and 455-458 (UYVY), 884-887 (RGBA8): the
\* buffer is sized
\* for the frame; then the backend is called or the CPU routine runs
CvResize ==
    /\ cv.stage = "resize"
    /\ LET n == BufferSize(cv.fmt, cv.width, cv.height)
       IN cv' = [cv EXCEPT
                   !.buf = IF Len(cv.buf) # n THEN Resized(cv.buf, n) ELSE @,
                   !.stage = IF cv.viaGpu THEN "gpu" ELSE "cpu"]
    /\ UNCHANGED instanceVars

\* lines 385-398 and 731-744: the backend call returns true, having written
\* the whole buffer, or false, having written any number of lines of it (a
\* line is width cells; the buffer has 2 * height of them)
CvBackendCall ==
    /\ cv.stage = "gpu"
    /\ \E ok \in BOOLEAN, lines \in 0..(2 * cv.height) :
         IF ok
         THEN /\ lines = 2 * cv.height
              /\ cv' = [cv EXCEPT
                          !.buf = [i \in 1..Len(cv.buf) |-> Cell("gpu", 0)],
                          !.gpu = "ok",
                          !.stage = "send"]
         ELSE cv' = [cv EXCEPT
                       !.buf = [i \in 1..Len(cv.buf) |->
                                   IF i <= lines * cv.width
                                   THEN Cell("junk", 0) ELSE cv.buf[i]],
                       !.gpu = "failed",
                       !.stage = "cpu"]
    /\ UNCHANGED instanceVars

\* lines 404 / 449-499, 769-827 and 890-905: the CPU routine.  When one of its
\* stores falls outside the buffer the behaviour is undefined: the process
\* crashes, or the store lands in the heap next to the buffer.
CvCpuRoutine ==
    /\ cv.stage = "cpu"
    /\ LET ws == CpuWrites(cv.fmt, cv.src, cv.width, cv.height)
       IN \E outcome \in IF Overruns(cv.buf, ws) THEN {"crash", "silent"}
                          ELSE {"defined"} :
            cv' = [cv EXCEPT
                     !.buf = IF outcome = "crash" THEN @ ELSE ApplyWrites(@, ws),
                     !.overrun = (outcome # "defined"),
                     !.stage = IF outcome = "crash" THEN "crashed" ELSE "send"]
    /\ UNCHANGED instanceVars

\* lines 842-847 and 880, 908, 913-917: the buffer is handed to the transport
CvSend ==
    /\ cv.stage = "send"
    /\ cv' = [cv EXCEPT
                !.stage = "sent",
                !.rec = FrameRecord(cv.fmt, cv.width, cv.height, cv.buf)]
    /\ UNCHANGED instanceVars

NextConv ==
    \/ CvResize
    \/ CvBackendCall
    \/ CvCpuRoutine
    \/ CvSend

SpecConv == InitConv /\ [][NextConv]_vars

(***************************************************************************)
(* The HDR metadata of a frame: createHDRMetadata builds the string from   *)
(* the colorimetry fields of the instance, and sendHDRFrame attaches it to *)
(* the frame record.  SpecMeta follows one such call from each colorimetry *)
(* configuration.                                                          *)
(***************************************************************************)
\* lines 146-148, 151-153: the values of data->colorSpace and of
\* data->transferFunction
ColorSpaces == {"rec709", "rec2020", "p3"}
TransferFunctions == {"sdr", "pq", "hlg"}

\* values of data->maxCLL and data->maxFALL, in nits, inside the ranges of
\* both parameters (1378-1380, 1392-1394)
LightLevels == {400, 1000, 4000}

\* lines 228-231: the colorimetry fields of the instance
Colorimetry ==
    [colorSpace : ColorSpaces, transferFunction : TransferFunctions,
     maxCLL : LightLevels, maxFALL : LightLevels]

\* lines 977-980: the fields as createInstance sets them
DefaultColorimetry ==
    [colorSpace |-> "rec709", transferFunction |-> "sdr",
     maxCLL |-> 1000, maxFALL |-> 400]

\* lines 674-700: the string createHDRMetadata stores in hdrMetadataXML
CreateHDRMetadata(c) ==
    LET primaries == IF c.colorSpace = "rec2020" THEN "bt_2020"
                     ELSE IF c.colorSpace = "p3" THEN "bt_2020"
                     ELSE "bt_709"
        matrix == IF c.colorSpace = "rec2020" THEN "bt_2020"
                  ELSE IF c.colorSpace = "p3" THEN "bt_2020"
                  ELSE "bt_709"
        transfer == IF c.transferFunction = "pq" THEN "bt_2100_pq"
                    ELSE IF c.transferFunction = "hlg" THEN "bt_2100_hlg"
                    ELSE "bt_709"
    IN "<ndi_color_info primaries=\"" \o primaries
       \o "\" transfer=\"" \o transfer
       \o "\" matrix=\"" \o matrix \o "\" />"

\* the calls that are followed: the colorimetry of the instance and the
\* string an earlier frame left in hdrMetadataXML (none before the first)
MetaCalls ==
    [stage : {"md_create"}, config : Colorimetry,
     hdrMetadataXML : {"", CreateHDRMetadata(DefaultColorimetry)},
     p_metadata : {"unset"}]

InitMeta ==
    /\ InstanceInit(FALSE, {"ok"})
    /\ cv \in MetaCalls

\* line 830: createHDRMetadata(data)
MdCreate ==
    /\ cv.stage = "md_create"
    /\ cv' = [cv EXCEPT !.hdrMetadataXML = CreateHDRMetadata(cv.config),
                        !.stage = "md_attach"]
    /\ UNCHANGED instanceVars

\* line 844: p_metadata is the string, or nullptr when it is empty
MdAttach ==
    /\ cv.stage = "md_attach"
    /\ cv' = [cv EXCEPT
                !.p_metadata = IF cv.hdrMetadataXML = "" THEN "nullptr"
                               ELSE cv.hdrMetadataXML,
                !.stage = "md_send"]
    /\ UNCHANGED instanceVars

\* line 847: the frame is handed to the transport
MdSend ==
    /\ cv.stage = "md_send"
    /\ cv' = [cv EXCEPT !.stage = "md_sent"]
    /\ UNCHANGED instanceVars

NextMeta ==
    \/ MdCreate
    \/ MdAttach
    \/ MdSend

SpecMeta == InitMeta /\ [][NextMeta]_vars

(***************************************************************************)
(* The specifications.  Spec has one render thread (the producer); SpecMT  *)
(* has two, which the plug-in allows the host by declaring itself          *)
(* kOfxImageEffectRenderFullySafe.  SpecDims is Spec with a host that      *)
(* hands render windows of every kind.                                     *)
(***************************************************************************)
Producer == "r1"

MainStep ==
    \/ SdEnter
    \/ SdNotify
    \/ SdJoin
    \/ SdClear
    \/ SdGpu
    \/ SdDestroy
    \/ IcUpdate
    \/ IcAfter
    \/ DestroyInstance
    \/ DeleteInstance

WorkerStep ==
    \/ WLoop
    \/ WPred
    \/ WBlock
    \/ WCheck

RenderStep(R) ==
    \/ \E t \in R : RenderEnter(t)
    \/ \E t \in R : RenderWrite(t)
    \/ \E t \in R \cup {Main} : InitA(t)
    \/ \E t \in R \cup {Main} : InitB(t)
    \/ \E t \in R \cup {Main} : InitC(t)
    \/ \E t \in R \cup {Worker} : Dispatch(t)
    \/ \E t \in R \cup {Worker} : GLock(t)
    \/ \E t \in R \cup {Worker} : GCall(t)
    \/ \E t \in R \cup {Worker} : GCpu(t)
    \/ \E t \in R \cup {Worker} : SdrCpu(t)
    \/ \E t \in R \cup {Worker} : HdrGpu(t)
    \/ \E t \in R \cup {Worker} : HdrCpu(t)
    \/ \E t \in R \cup {Worker} : TxReturn(t)

Next ==
    \/ \E p \in ParamNames : UserEdit(p)
    \/ MainStep
    \/ WorkerStep
    \/ RenderStep({Producer})

NextMT ==
    \/ \E p \in ParamNames : edits < MaxEditsMT /\ UserEdit(p)
    \/ MainStep
    \/ WorkerStep
    \/ RenderStep(Renders)

Spec == Init /\ [][Next]_vars

\* Spec with a host that hands render windows of every kind
SpecDims == InitDims /\ [][Next]_vars

SpecMT == InitMT /\ [][NextMT]_vars

(***************************************************************************)
(* Properties of the asynchronous path.                                    *)
(***************************************************************************)
\* C1: a frame that enters sendNDIFrame while asynchronous sending and the
\* sender are enabled is neither converted nor sent on the render thread
\* that brought it.
C1_ProducerNeitherConvertsNorSends ==
    \A t \in Renders :
        loc[t].accAsync => pc[t] \notin PipelinePcs \cup TxPcs

\* C2: once shutdownNDI has set the stop flag and notified, the worker is
\* not blocked in its wait; there the join at line 645 would never return.
C2_StopNeverStrandsWorker ==
    ~(pc[Main] = "sd_join" /\ pc[Worker] = "w_wait" /\ data.stopAsyncThread)

\* the worker has nothing left to do: it is blocked in its wait on an empty
\* queue, no frame is on its way in, and no shutdown was ever asked for
WorkerDrained ==
    /\ pc[Worker] = "w_wait"
    /\ frameQueue = << >>
    /\ \A t \in Renders : pc[t] = "idle"
    /\ edits = 0
    /\ m.action = "none"

\* C3: the worker sends the frames submitted in asynchronous mode in their
\* order of submission, each once, and has sent them all when it has
\* nothing left to do.
C3_WorkerSendsInEnqueueOrder ==
    /\ Len(workerSent) <= Len(asyncSubmitted)
    /\ workerSent = SubSeq(asyncSubmitted, 1, Len(workerSent))
    /\ WorkerDrained => workerSent = asyncSubmitted

(***************************************************************************)
(* Properties of the conversion and of the send.                           *)
(***************************************************************************)
\* C4: a transport send is only ever issued with a buffer written by a
\* successful GPU conversion or by the CPU routine, and a frame that passed
\* the guard leaves the conversion only into its transport send (or with
\* the process), whatever the GPU call returned and whatever the state of
\* the acceleration context.
C4_SendsConvertedFrame ==
    /\ [](\A t \in SendThreads :
            pc[t] \in TxPcs => loc[t].conv \in {"gpu", "cpu"})
    /\ [][\A t \in SendThreads :
            pc[t] \in PipelinePcs =>
                pc'[t] \in PipelinePcs \cup TxPcs \cup {"terminated"}]_vars

\* the HDR frame is in its send after the Metal call failed and the CPU
\* conversion wrote the buffer
C4_Witness ==
    \E t \in SendThreads :
        pc[t] = "tx_hdr" /\ loc[t].conv = "cpu" /\ loc[t].gpuCall = "failed"

C6_OneBackendCallInFlight ==
    Cardinality({t \in SendThreads : pc[t] \in GpuCallPcs}) <= 1

\* C7: a backend conversion call in progress runs on a handle that has not
\* been released.
C7_CallOnReadyContext ==
    \A t \in SendThreads : pc[t] \in GpuCallPcs => loc[t].gpuCall = "valid"

\* C8: no conversion writes the encoded buffer that the transport still
\* owns from an asynchronous send.
C8_OwnedBufferNotRewritten ==
    \A t \in SendThreads : pc[t] \in ConvPcs => loc[t].buf # outstanding

\* C9: only the worker thread is ever inside the asynchronous send
\* primitive.
C9_AsyncSendOnlyOnWorker ==
    \A t \in SendThreads : pc[t] = "tx_async" => t = Worker

(***************************************************************************)
(* Properties of the worker's life cycle.                                  *)
(***************************************************************************)
\* the worker thread exists and has not left asyncFrameProcessor
WorkerRunning == pc[Worker] \notin {"none", "w_done", "terminated"}

\* no thread is inside createInstance, instanceChanged, destroyInstance or
\* initializeNDI
Settled ==
    /\ pc[Main] = "idle"
    /\ m.action = "none"
    /\ \A t \in Renders : pc[t] \notin {"init_a", "init_b", "init_c"}

\* C10: between two life-cycle operations the worker is running exactly
\* when the sender is initialized and asynchronous sending is on.
C10_WorkerMatchesSetting ==
    Settled => (WorkerRunning <=> (data.ndiInitialized /\ data.asyncSending))

(***************************************************************************)
(* Properties of a configuration change.                                   *)
(***************************************************************************)
\* C11: after the user toggled HDR, and for as long as the sender that was
\* initialized at that moment has not been torn down, no render thread
\* converts or sends a frame in the format of the new HDR value.
C11_NoFrameUnderNewSettingOnOldSession ==
    m.oldSession =>
        \A t \in Renders :
            pc[t] \in PipelinePcs \cup TxPcs =>
                (loc[t].buf = "hdr") # P.hdrEnabled

(***************************************************************************)
(* Properties of the frame's dimensions.                                   *)
(***************************************************************************)
\* C12: a frame whose width or height is zero or negative never reaches a
\* transport send.
C12_BadDimensionsNeverSent ==
    \A t \in Renders : loc[t].dims # "ok" => pc[t] \notin TxPcs

(***************************************************************************)
(* Properties of the stop of the asynchronous path.                        *)
(***************************************************************************)
\* C13: once shutdownNDI has cleared the queue, the queue is empty and
\* stays empty until shutdownNDI returns, and the worker is not converting
\* or sending an entry.
C13_QueueEmptyAfterStop ==
    pc[Main] \in {"sd_gpu", "sd_destroy"} =>
        /\ frameQueue = << >>
        /\ pc[Worker] \notin PipelinePcs \cup TxPcs

\* an entry is in the queue when shutdownNDI is entered
C13_EntriesQueuedAtStop == pc[Main] = "sd_enter" /\ frameQueue # << >>

(***************************************************************************)
(* Properties of the acceleration context's life cycle.                    *)
(***************************************************************************)
\* C14: a context that is not Ready becomes Ready only by a run of
\* initializeGPUContext, which builds a new context object; a frame starts
\* an initialization only when no sender is initialized, and
\* initializeNDI goes on to the GPU initialization only then.
C14_ReadyOnlyFromFreshInitialize ==
    /\ [][(~gpuContext.initialized /\ gpuContext'.initialized) =>
            \E t \in InitThreads :
                /\ pc[t] = "init_b"
                /\ pc'[t] = "init_c"
                /\ gpuContext' = NewGPUContext(TRUE)]_vars
    /\ [][\A t \in Renders :
            (pc[t] = "r_write" /\ pc'[t] = "init_a") =>
                ~data.ndiInitialized]_vars
    /\ [][\A t \in InitThreads :
            (pc[t] = "init_a" /\ pc'[t] = "init_b") =>
                ~data.ndiInitialized]_vars

\* a frame is converted by the CPU routine because the context of the
\* initialized sender failed to initialize, with GPU acceleration asked for
C14_Witness ==
    \E t \in Renders :
        /\ pc[t] = "uyvy_cpu"
        /\ data.ndiInitialized
        /\ data.gpuAcceleration
        /\ gpuContext.allocated
        /\ ~gpuContext.initialized

\* C15: when initializeGPUContext fails (initializeNDI then clears
\* gpuAcceleration), the context it leaves is not initialized and holds no
\* backend handle.
C15_FailedInitializeLeavesNothing ==
    [][\A t \in InitThreads :
         (/\ pc[t] = "init_b"
          /\ pc'[t] = "init_c"
          /\ data.gpuAcceleration
          /\ ~data'.gpuAcceleration) =>
             /\ gpuContext'.allocated
             /\ ~gpuContext'.initialized
             /\ gpuContext'.metalContext = "null"]_vars

\* initializeGPUContext has just failed inside initializeNDI
C15_Witness ==
    \E t \in InitThreads :
        /\ pc[t] = "init_c"
        /\ P.gpuAcceleration
        /\ ~data.gpuAcceleration
        /\ gpuContext.allocated
        /\ ~gpuContext.initialized
        /\ gpuContext.metalContext = "null"

\* C17: whatever the state of the context, shutdownGPUContext leaves it not
\* initialized and without a backend handle, and on a context that is null
\* or not initialized it changes (and releases) nothing.
C17_ShutdownInAnyState ==
    [][(pc[Main] = "sd_gpu" /\ pc'[Main] = "sd_destroy") =>
          /\ ~gpuContext'.initialized
          /\ gpuContext'.metalContext = "null"
          /\ (~gpuContext.allocated \/ ~gpuContext.initialized) =>
                 (gpuContext' = gpuContext /\ loc' = loc)]_vars

\* shutdownGPUContext has run on a sender that never had a context
C17_Witness ==
    /\ pc[Main] = "sd_destroy"
    /\ data.ndiInitialized
    /\ ~gpuContext.allocated

\* C18: a backend conversion call that returns false changes neither the
\* context nor a field or parameter of the instance: only the frame at hand
\* goes to the CPU routine.
C18_FailedCallLeavesContextReady ==
    [][\A t \in SendThreads :
         (pc[t] \in GpuCallPcs /\ pc'[t] \in {"g_cpu", "hdr_cpu"}) =>
             /\ gpuContext' = gpuContext
             /\ data' = data
             /\ P' = P]_vars

\* a frame is in the CPU routine after its backend call failed, and the
\* context is still initialized with its handle
C18_Witness ==
    \E t \in SendThreads :
        /\ pc[t] \in {"g_cpu", "hdr_cpu"}
        /\ loc[t].gpuCall = "failed"
        /\ data.gpuAcceleration
        /\ gpuContext.initialized
        /\ gpuContext.metalContext = "live"

\* C16: a run of initializeGPUContext that finds the context initialized
\* leaves the context as it is and reports success (gpuAcceleration keeps
\* its value).
C16_InitializeOnReadyIsNoOp ==
    [][\A t \in InitThreads :
         (pc[t] = "init_b" /\ pc'[t] = "init_c" /\ gpuContext.initialized) =>
             /\ gpuContext' = gpuContext
             /\ data'.gpuAcceleration = data.gpuAcceleration]_vars

(***************************************************************************)
(* Properties of the encoded buffers.                                      *)
(***************************************************************************)
\* C20: no two threads are converting into, or sending from, the same
\* encoded buffer of the instance at the same time.
C20_NoSharedEncodedBuffer ==
    \A t1, t2 \in SendThreads :
        (/\ t1 # t2
         /\ pc[t1] \in ConvPcs \cup TxPcs
         /\ pc[t2] \in ConvPcs \cup TxPcs) =>
            loc[t1].buf # loc[t2].buf

(***************************************************************************)
(* Properties of the conversions.                                          *)
(***************************************************************************)
\* C19: the buffer that is sent after the backend call returned false is,
\* cell for cell, the buffer that the CPU routine produces when it is
\* called directly on the same image, whatever the failed call wrote.
C19_FallbackEqualsDirectCpu ==
    (cv.stage \in {"send", "sent"} /\ cv.gpu = "failed") =>
        cv.buf = DirectCpu(cv.fmt, cv.src, cv.width, cv.height)

\* a Planar16 frame of two rows of two pixels was sent after its backend
\* call had failed; every cell of it holds what the CPU routine wrote
C19_Witness ==
    /\ cv.stage = "sent"
    /\ cv.gpu = "failed"
    /\ cv.fmt = "p216"
    /\ cv.width = 2
    /\ cv.height = 2
    /\ \A i \in 1..Len(cv.buf) : cv.buf[i].by = "cpu"

\* C21: the UYVY routine leaves a buffer of width * height * 2 bytes and
\* every byte index it stores to lies in 0 .. width * height * 2 - 1, for
\* odd widths as for even ones.
C21_UyvyStoresInsideBuffer ==
    (cv.fmt = "uyvy" /\ cv.stage = "cpu") =>
        /\ Len(cv.buf) = cv.width * cv.height * 2
        /\ ~Overruns(cv.buf, CpuWrites(cv.fmt, cv.src, cv.width, cv.height))

\* C22: the Planar16 routine leaves width * height luma samples followed by
\* width * height interleaved chroma samples, every index it stores to lies
\* in the plane it belongs to, and no chroma cell is stored to by two
\* different pixel pairs.
ChromaStores(ws, uvPlane) ==
    { j \in 1..Len(ws) : ws[j][1] >= uvPlane }

LumaStores(ws, uvPlane) ==
    { j \in 1..Len(ws) : ws[j][1] < uvPlane }

C22_Planar16StoresInsidePlanes ==
    (cv.fmt = "p216" /\ cv.stage = "cpu") =>
        LET ws == CpuWrites(cv.fmt, cv.src, cv.width, cv.height)
            uvPlane == cv.width * cv.height
        IN  /\ Len(cv.buf) = 2 * uvPlane
            /\ \A j \in ChromaStores(ws, uvPlane) : ws[j][1] < 2 * uvPlane
            /\ \A j \in LumaStores(ws, uvPlane) : ws[j][1] >= 0
            /\ \A i, j \in ChromaStores(ws, uvPlane) :
                   i # j => ws[i][1] # ws[j][1]

\* C23: in a row of odd width (a width of 1 included) the iteration of the
\* last column takes the last pixel itself as its second pixel, so the
\* chroma it stores is the chroma of that pixel alone, and no iteration of
\* the row reads a pixel beyond the last pixel of the row.
C23_LastColumnPairsWithItself ==
    (cv.width % 2 = 1) =>
        \A y \in 0..(cv.height - 1) :
            LET srcRow == cv.height - 1 - y
                x == cv.width - 1
                last == srcRow * cv.width + x
                p == cv.src[last + 1]
                uyvy == UyvyPairWrites(cv.src, cv.width, cv.height, y, x)
                p216 == P216PairWrites(cv.src, cv.width, cv.height, y, x)
            IN  /\ SecondIndex(cv.width, srcRow, x) = last
                /\ \A k \in 0..(PairsPerRow(cv.width) - 1) :
                       SecondIndex(cv.width, srcRow, 2 * k)
                           \in (srcRow * cv.width)..last
                /\ cv.fmt = "uyvy" =>
                       /\ uyvy[1][2] = ChromaByte(ChromaU709(p, p))
                       /\ uyvy[3][2] = ChromaByte(ChromaV709(p, p))
                /\ cv.fmt = "p216" =>
                       /\ Len(p216) = 3
                       /\ p216[2][2] = Chroma16(ChromaU2020(p, p))
                       /\ p216[3][2] = Chroma16(ChromaV2020(p, p))

\* a Planar16 frame of three columns was converted on the CPU and sent; the
\* last pixel of its bottom row is saturated red and its left neighbour is
\* white
C23_Witness ==
    /\ cv.stage = "sent"
    /\ cv.gpu = "none"
    /\ cv.fmt = "p216"
    /\ cv.width = 3
    /\ cv.height = 2
    /\ cv.src[3] = << 2, -1, 0, 0 >>
    /\ cv.src[2] = << 1, 1, 1, 1 >>

\* the cells of output row y of an encoded buffer: a row of a packed format
\* and, for Planar16, the row of the luma plane and the row of the UV plane
\* (each as long as the line stride handed to the transport)
OutputRowCells(fmt, width, height, y) ==
    CASE fmt = "uyvy" -> (2 * width * y + 1)..(2 * width * (y + 1))
      [] fmt = "rgba" -> (4 * width * y + 1)..(4 * width * (y + 1))
      [] fmt = "p216" -> ((width * y + 1)..(width * (y + 1)))
                         \cup ((width * height + width * y + 1)
                                   ..(width * height + width * (y + 1)))

\* the images that have the same input row srcRow as src
SameInputRow(src, width, height, srcRow) ==
    { other \in [1..(width * height) -> Pixels] :
        \A x \in 0..(width - 1) :
            SrcPixel(other, width, srcRow, x) = SrcPixel(src, width, srcRow, x) }

\* C24: in the buffer a CPU conversion produced, output row y is a function
\* of input row height - 1 - y alone: whatever the other rows of the image
\* hold, the cells of output row y are the same.
C24_OutputRowFromFlippedInputRow ==
    (cv.stage \in {"send", "sent"} /\ cv.gpu # "ok") =>
        \A y \in 0..(cv.height - 1) :
            \A other \in SameInputRow(cv.src, cv.width, cv.height,
                                      cv.height - 1 - y) :
                \A i \in OutputRowCells(cv.fmt, cv.width, cv.height, y) :
                    cv.buf[i] = DirectCpu(cv.fmt, other, cv.width, cv.height)[i]

\* channel values below, at the ends of and above the range [0, 1], and the
\* pixels made of them
ChannelValues == {-1, 0, 1, 2}

CornerPixels == [1..4 -> ChannelValues]

\* the colours at the corners of the clamped range: each of R, G, B is 0 or 1
ClampedCorners == [1..3 -> {0, 1}]

\* C25: with every channel clamped to [0, 1], a Planar16 luma sample lies in
\* 4096..60160, a Planar16 chroma sample lies in 4096..61440 and is 32768
\* for a pixel pair without colour, and a UYVY or RGBA8 byte is the scaled
\* value, in 0..255: the value that is narrowed to 16 or 8 bits already fits,
\* so narrowing changes nothing.  Stated for the cells of every buffer a CPU
\* conversion produced, for every pixel with channels below, at the ends of
\* and above [0, 1], and for every pair of colours at the corners of the
\* clamped range (where the chroma, linear in the channels, is extreme).
C25_QuantizedValuesInRange ==
    (cv.stage \in {"send", "sent"} /\ cv.gpu # "ok") =>
        /\ \A i \in 1..Len(cv.buf) :
               /\ cv.buf[i].by = "cpu"
               /\ cv.fmt = "p216" /\ i <= cv.width * cv.height =>
                      cv.buf[i].v \in 4096..60160
               /\ cv.fmt = "p216" /\ i > cv.width * cv.height =>
                      cv.buf[i].v \in 4096..61440
               /\ cv.fmt # "p216" => cv.buf[i].v \in 0..255
        /\ \A p \in CornerPixels :
               /\ Luma16Wide(Luma2020(p)) \in 4096..60160
               /\ Luma16(Luma2020(p)) = Luma16Wide(Luma2020(p))
               /\ ByteWide(Luma709(p)) \in 0..255
               /\ \A c \in 1..4 : ByteWide(10000 * Clamp(p[c])) \in 0..255
               /\ ChromaByteWide(ChromaU709(p, p)) \in 0..255
               /\ ChromaByteWide(ChromaV709(p, p)) \in 0..255
               /\ Chroma16Wide(ChromaU2020(p, p)) \in 4096..61440
               /\ Chroma16Wide(ChromaV2020(p, p)) \in 4096..61440
               /\ (Clamp(p[1]) = Clamp(p[2]) /\ Clamp(p[2]) = Clamp(p[3])) =>
                      /\ Chroma16(ChromaU2020(p, p)) = 32768
                      /\ Chroma16(ChromaV2020(p, p)) = 32768
        /\ \A p \in ClampedCorners, q \in ClampedCorners :
               /\ Chroma16Wide(ChromaU2020(p, q)) \in 4096..61440
               /\ Chroma16Wide(ChromaV2020(p, q)) \in 4096..61440
               /\ Chroma16(ChromaU2020(p, q)) = Chroma16Wide(ChromaU2020(p, q))
               /\ Chroma16(ChromaV2020(p, q)) = Chroma16Wide(ChromaV2020(p, q))
               /\ ChromaByteWide(ChromaU709(p, q)) \in 0..255
               /\ ChromaByteWide(ChromaV709(p, q)) \in 0..255

\* a Planar16 frame of an out-of-range red pixel and a white pixel was
\* converted on the CPU and sent: the luma samples are those of clamped red
\* and of white, the top of the luma range
C25_Witness ==
    /\ cv.stage = "sent"
    /\ cv.gpu = "none"
    /\ cv.fmt = "p216"
    /\ cv.width = 2
    /\ cv.height = 1
    /\ cv.src = << << 2, -1, 0, 0 >>, << 1, 1, 1, 1 >> >>
    /\ cv.buf[1].v = 18824
    /\ cv.buf[2].v = 60160

\* the image of width * height pixels that are all (1, 1, 1, 1)
WhiteImage(width, height) == [i \in 1..(width * height) |-> << 1, 1, 1, 1 >>]

\* C26: the UYVY buffer the CPU routine produces for a 2x2 frame of
\* (1, 1, 1, 1) has, in both rows, 255 in every luma byte and a value within
\* one code of 128 in every U and V byte.
C26_WhiteFrameToUyvy ==
    (/\ cv.stage \in {"send", "sent"}
     /\ cv.gpu # "ok"
     /\ cv.fmt = "uyvy"
     /\ cv.width = 2
     /\ cv.height = 2
     /\ cv.src = WhiteImage(2, 2)) =>
        /\ Len(cv.buf) = 8
        /\ \A i \in 1..Len(cv.buf) :
               /\ cv.buf[i].by = "cpu"
               /\ i % 2 = 0 => cv.buf[i].v = 255
               /\ i % 2 = 1 => cv.buf[i].v \in 127..129

\* the 2x2 white frame was converted to UYVY on the CPU and sent
C26_Witness ==
    /\ cv.stage = "sent"
    /\ cv.gpu = "none"
    /\ cv.fmt = "uyvy"
    /\ cv.width = 2
    /\ cv.height = 2
    /\ cv.src = WhiteImage(2, 2)
    /\ cv.buf[1].v = 127
    /\ cv.buf[2].v = 255

\* C27: the frame record of every frame handed to the transport agrees with
\* the frame's dimensions and with the configuration it was sent under: an
\* HDR frame is Planar16 with a stride of width * 2 bytes and a buffer of
\* 2 * width * height 16-bit samples; an SDR frame in the optimal format is
\* UYVY with a stride of width * 2 and width * height * 2 bytes; any other
\* SDR frame is RGBA8 with a stride of width * 4 and width * height * 4
\* bytes; xres and yres are the width and the height.  The buffer before the
\* call may have been left by a frame of other dimensions.
C27_FrameRecordAgrees ==
    (cv.stage = "sent") =>
        /\ cv.rec.xres = cv.width
        /\ cv.rec.yres = cv.height
        /\ cv.hdrEnabled =>
               /\ cv.rec.FourCC = "P216"
               /\ cv.rec.line_stride_in_bytes = cv.width * 2
               /\ cv.rec.cells = 2 * cv.width * cv.height
               /\ cv.rec.cellBytes = 2
        /\ (~cv.hdrEnabled /\ cv.optimalFormat) =>
               /\ cv.rec.FourCC = "UYVY"
               /\ cv.rec.line_stride_in_bytes = cv.width * 2
               /\ cv.rec.cells = cv.width * cv.height * 2
               /\ cv.rec.cellBytes = 1
        /\ (~cv.hdrEnabled /\ ~cv.optimalFormat) =>
               /\ cv.rec.FourCC = "RGBA"
               /\ cv.rec.line_stride_in_bytes = cv.width * 4
               /\ cv.rec.cells = cv.width * cv.height * 4
               /\ cv.rec.cellBytes = 1

\* an RGBA8 frame of 2x2 pixels was sent: its record names a buffer of 16
\* bytes, each of them written by the conversion
C27_Witness ==
    /\ cv.stage = "sent"
    /\ ~cv.hdrEnabled
    /\ ~cv.optimalFormat
    /\ cv.width = 2
    /\ cv.height = 2
    /\ cv.rec.cells = 16
    /\ cv.overrun = FALSE
    /\ \A i \in 1..Len(cv.buf) : cv.buf[i].by = "cpu"

(***************************************************************************)
(* Properties of the HDR metadata.                                         *)
(***************************************************************************)
\* C28: the metadata string attached to an HDR frame is rebuilt for the
\* frame from the colorimetry of the instance and carries primaries,
\* transfer function, matrix, maxCLL and maxFALL: a configuration that
\* differs from the frame's in any of the fields gives another string.
C28_MetadataTellsConfigurationsApart ==
    (cv.stage = "md_sent") =>
        /\ cv.p_metadata = CreateHDRMetadata(cv.config)
        /\ \A other \in Colorimetry :
               other # cv.config => CreateHDRMetadata(other) # cv.p_metadata

(***************************************************************************)
(* Properties of the handling of failures.                                 *)
(***************************************************************************)
\* C29: in a render call, a failure of the sender's initialization ends
\* the call with the frame skipped, a failure of the accelerator's
\* initialization lets the initialization go on, and a backend conversion
\* that returns false is followed by the CPU routine and the send; none of
\* them ends the process, and the render call they happened in returns
\* kOfxStatOK.
C29_FailuresNeverReachTheHost ==
    [][\A t \in Renders :
         (pc'[t] # pc[t] /\ crashed' = crashed) =>
             /\ (pc[t] = "init_a" /\ ~data.ndiInitialized
                     /\ pc'[t] # "init_b") =>
                    /\ pc'[t] = "idle"
                    /\ ReturnStatus(t) = "kOfxStatOK"
                    /\ loc'[t] = BlankLoc
                    /\ ~data'.ndiInitialized
             /\ pc[t] = "init_b" =>
                    /\ pc'[t] = "init_c"
                    /\ data.gpuAcceleration =>
                           (gpuContext'.initialized \/ ~data'.gpuAcceleration)
             /\ (pc[t] \in GpuCallPcs /\ loc'[t].gpuCall = "failed") =>
                    pc'[t] \in {"g_cpu", "hdr_cpu"}
             /\ (pc[t] \in {"g_cpu", "hdr_cpu"}) =>
                    /\ pc'[t] \in TxPcs
                    /\ loc'[t].conv = "cpu"
             /\ (pc[t] \in TxPcs /\ loc[t].gpuCall = "failed") =>
                    /\ pc'[t] = "idle"
                    /\ ReturnStatus(t) = "kOfxStatOK"]_vars

\* a render call is in its synchronous send of a UYVY frame that the CPU
\* routine converted after the backend call of the same render call had
\* returned false
C29_Witness ==
    \E t \in Renders :
        /\ pc[t] = "tx_sync"
        /\ loc[t].buf = "uyvy"
        /\ loc[t].conv = "cpu"
        /\ loc[t].gpuCall = "failed"
        /\ ~crashed

\* C30: when initializeGPUContext fails inside initializeNDI, gpuAcceleration
\* is cleared and the initialization goes on to set ndiInitialized; as long
\* as the context it left is the instance's context, no backend conversion
\* call is started and every frame that passes the guard goes to a CPU
\* routine; the context becomes usable again only in a later run of
\* initializeNDI.
C30_FailedAcceleratorStaysOff ==
    [][/\ \A t \in InitThreads :
            /\ (pc[t] = "init_b" /\ pc'[t] = "init_c" /\ data.gpuAcceleration
                    /\ ~gpuContext'.initialized) =>
                   /\ ~data'.gpuAcceleration
                   /\ gpuContext'.allocated
                   /\ gpuContext'.metalContext = "null"
            /\ (pc[t] = "init_c" /\ pc'[t] # pc[t] /\ crashed' = crashed) =>
                   data'.ndiInitialized
       /\ \A t \in SendThreads :
            /\ (pc[t] \notin GpuCallPcs /\ pc'[t] \in GpuCallPcs) =>
                   gpuContext.initialized
            /\ (pc[t] = "dispatch" /\ ~gpuContext.initialized
                    /\ pc'[t] \in PipelinePcs) =>
                   pc'[t] \in {"uyvy_cpu", "rgba_cpu", "hdr_cpu"}
       /\ (~gpuContext.initialized /\ gpuContext'.initialized) =>
              \E t \in InitThreads : pc[t] = "init_b" /\ pc'[t] = "init_c"]_vars

\* a frame is in its send, converted by the CPU routine, on a sender whose
\* accelerator failed to initialize; render has set gpuAcceleration again
\* from the parameter
C30_Witness ==
    \E t \in Renders :
        /\ pc[t] \in TxPcs
        /\ loc[t].conv = "cpu"
        /\ loc[t].gpuCall = "none"
        /\ data.ndiInitialized
        /\ data.gpuAcceleration
        /\ gpuContext.allocated
        /\ ~gpuContext.initialized

(***************************************************************************)
(* Properties of the worker's loop.                                        *)
(***************************************************************************)
\* C31: the worker ends only with the stop flag set and the queue empty; an
\* entry is taken off the queue by the worker alone, one per wake-up and
\* with queueMutex held; and no thread holds queueMutex while it converts
\* or sends.
C31_WorkerLoopDiscipline ==
    /\ [][(pc[Worker] # "w_done" /\ pc'[Worker] = "w_done") =>
            data.stopAsyncThread /\ frameQueue = << >>]_vars
    /\ [][frameQueue' # frameQueue /\ frameQueue # << >> =>
            \/ /\ pc[Worker] = "w_check"
               /\ queueMutex = Worker
               /\ frameQueue' = Tail(frameQueue)
               /\ queueMutex' = "free"
               /\ pc'[Worker] = "dispatch"
            \/ pc[Main] = "sd_clear" /\ frameQueue' = << >>]_vars
    /\ [](\A t \in Threads :
            pc[t] \in PipelinePcs \cup TxPcs => queueMutex # t)

\* the worker ended after a wake-up that found the stop flag set
C31_WorkerEndedOnStop ==
    pc[Worker] = "w_done" /\ data.stopAsyncThread /\ frameQueue = << >>

\* the worker wakes up with an entry in the queue
C31_WakeUpWithEntryQueued == pc[Worker] = "w_check" /\ frameQueue # << >>

\* C32: initializeNDI never assigns a new thread to asyncThread while it
\* still holds a joinable thread (617-621), and the instance is never
\* deleted with asyncThread joinable (1019): each of the two ends the
\* process by std::terminate.
C32_WorkerHandleNeverLostLive ==
    [][/\ \A t \in InitThreads :
            (pc[t] = "init_c" /\ pc'[t] # "init_c" /\ data.asyncSending) =>
                asyncThread # "joinable"
       /\ (pc[Main] = "delete" /\ pc'[Main] # "delete") =>
                asyncThread # "joinable"]_vars

(***************************************************************************)
(* Properties of the sender's life cycle.                                  *)
(***************************************************************************)
\* C33: while a transport send call is in progress the sender is
\* initialized, and the handle the call was given is the live sender: it
\* was not null when the call began and shutdownNDI has not destroyed it
\* since.
C33_NoSendOnDestroyedSender ==
    \A t \in SendThreads :
        pc[t] \in TxPcs =>
            /\ data.ndiInitialized
            /\ data.ndiSend = "live"
            /\ loc[t].handle = "live"

\* no thread is inside initializeNDI or shutdownNDI, and the process lives
OutsideInitAndShutdown ==
    /\ ~crashed
    /\ \A t \in InitThreads : pc[t] \notin {"init_a", "init_b", "init_c"}
    /\ pc[Main] \notin {"sd_enter", "sd_notify", "sd_join", "sd_clear",
                        "sd_gpu", "sd_destroy"}

\* C34: outside initializeNDI and shutdownNDI the sender is initialized
\* exactly when its handle is not null, and the GPU context is initialized
\* only if the sender is; and initializeGPUContext never builds a new
\* context over one that is still initialized.
C34_SenderAndContextAgree ==
    /\ [](OutsideInitAndShutdown =>
            /\ data.ndiInitialized <=> data.ndiSend = "live"
            /\ gpuContext.initialized => data.ndiInitialized)
    /\ [][\A t \in InitThreads :
            (pc[t] = "init_b" /\ pc'[t] = "init_c" /\ data.gpuAcceleration) =>
                ~gpuContext.initialized]_vars

\* the step in which a user-edited instanceChanged returns to the host
NotificationCompletes ==
    pc[Main] # "idle" /\ pc'[Main] = "idle" /\ m.action = "changed"

\* C35: when a user-edited instanceChanged returns, the sender is
\* initialized only if enabled is true (in the instance or, at least, as
\* the parameter), and with enabled true (in both) the sender is
\* initialized unless the notification ends in a failed initializeNDI.
C35_SenderFollowsEnabled ==
    [][NotificationCompletes =>
          /\ data'.ndiInitialized => (data'.enabled \/ P'.enabled)
          /\ (data'.enabled /\ P'.enabled) =>
                 (data'.ndiInitialized \/ pc[Main] = "init_a")]_vars

(***************************************************************************)
(* Properties of a failed initialization of the sender.                    *)
(***************************************************************************)
\* the step in which the run of initializeNDI by thread t fails: at
\* NDIlib_initialize (569-572) or at NDIlib_send_create (586-592)
InitFails(t) ==
    /\ pc[t] = "init_a"
    /\ ~data.ndiInitialized
    /\ pc'[t] \notin {"init_a", "init_b", "terminated"}

\* no other thread is inside initializeNDI
InitializesAlone(t) ==
    \A u \in InitThreads \ {t} : pc[u] \notin {"init_a", "init_b", "init_c"}

InitPcs == {"init_a", "init_b", "init_c"}

\* instanceChanged is running for a user edit of parameter p with the
\* enabled parameter true
Editing(p) == m.action = "changed" /\ m.paramName = p /\ P.enabled

\* C37: a user edit of a restarting parameter that finds the sender
\* initialized, with enabled true, makes instanceChanged shut the sender
\* down once and then initialize it once: the shutdown is entered; after
\* it the sender is found enabled, so that initializeNDI is called (unless
\* a frame has initialized the sender already) and no second shutdown; and
\* no other thread is inside initializeNDI when instanceChanged is.  The new sender is created from the
\* edited values of the source name, the GPU setting and asyncSending.  The
\* edit of another parameter (enabled apart) that finds the sender
\* initialized, with enabled true, leads to no shutdown and no
\* initialization.
C37_RestartOnceOnlyForRestartParams ==
    /\ [][\A p \in RestartParams :
            (/\ Editing(p)
             /\ pc[Main] = "ic_entry"
             /\ pc'[Main] \notin {"ic_entry", "terminated"}
             /\ data.ndiInitialized) =>
                pc'[Main] = "sd_enter" /\ m'.restarted]_vars
    /\ []((m.restarted /\ P.enabled) =>
            /\ pc[Main] = "ic_after" => data.enabled
            /\ pc[Main] \in InitPcs => \A t \in Renders : pc[t] \notin InitPcs)
    /\ [][(/\ m.restarted
           /\ P.enabled
           /\ pc[Main] \in InitPcs
           /\ pc'[Main] # pc[Main]) =>
              /\ data.sourceName = P.sourceName
              /\ data.asyncSending = P.asyncSending
              /\ pc[Main] \in {"init_a", "init_b"} =>
                     data.gpuAcceleration = P.gpuAcceleration]_vars
    /\ [][\A p \in ParamNames \ (RestartParams \cup {"enabled"}) :
            (/\ Editing(p)
             /\ pc[Main] \in {"ic_entry", "ic_after"}
             /\ pc'[Main] \notin {pc[Main], "terminated"}
             /\ data.ndiInitialized) =>
                pc'[Main] \in {"ic_after", "idle"}]_vars

====
